---- MODULE Spec2Model ----
(***************************************************************************)
(* Appointment availability, booking creation, the booking status state    *)
(* machine and the scheduled sweeps of the salon booking platform.         *)
(*                                                                         *)
(* Times of day are minutes since midnight, dates are day numbers (day 0   *)
(* is a Monday), and a datetime is date * 1440 + time of day.  Prices are   *)
(* in minor units.  A nullable time or price column holds NULL, a nullable *)
(* text column holds None.                                                 *)
(*                                                                         *)
(* Every request handler runs in its own database session: it reads, it    *)
(* decides, and its writes reach the store at db.commit().  A handler is   *)
(* therefore three steps of a worker: the request arrives (x_begin), the   *)
(* handler reads and validates (x), and the session commits (x_commit).    *)
(* A sweep has no request: it reads (x) and commits (x_commit).            *)
(***************************************************************************)
EXTENDS Integers, Sequences, FiniteSets, TLC

VARIABLES
    now,              \* wall clock, a datetime
    masters,          \* table masters
    services,         \* table services
    master_services,  \* table master_services
    schedules,        \* table master_schedules
    exceptions,       \* table schedule_exceptions
    salons,           \* table salons
    bookings,         \* table bookings, in insertion order; the id is the index;
                      \* written_by names the operation whose commit wrote the row last
    pc,               \* per worker: "idle" or the handler step it is at
    local,            \* per worker: the request, then the session's pending write
    resp              \* per worker: the answer to its last finished request

vars == <<now, masters, services, master_services, schedules, exceptions,
          salons, bookings, pc, local, resp>>

catalog == <<masters, services, master_services, schedules, exceptions, salons>>

-----------------------------------------------------------------------------
(* Bounds of the model *)

MaxBookings == 2
MaxExceptions == 2

Workers == {"w1", "w2"}

-----------------------------------------------------------------------------
(* Values of the program *)

NULL == -1
None == "None"

MinutesPerDay == 1440
\* a grid of 20-minute steps
SlotInterval_twenty == 15 + 5

SlotInterval == 15
BufferTime == 5
\* a lead time of two hours
LeadMinutes_two_hours == 2 * 60

LeadMinutes == 60
\* completion one minute after the two hours have passed
AutoCompleteDelay_and_a_minute == 2 * 60 + 1

AutoCompleteDelay == 120
\* a no-show after a full hour
NoShowDelay_hour == 30 + 30

NoShowDelay == 30

PENDING == "pending"
CONFIRMED == "confirmed"
IN_PROGRESS == "in_progress"
COMPLETED == "completed"
CANCELLED_BY_CLIENT == "cancelled_by_client"
CANCELLED_BY_SALON == "cancelled_by_salon"
NO_SHOW == "no_show"

BookingStatus == {PENDING, CONFIRMED, IN_PROGRESS, COMPLETED,
                  CANCELLED_BY_CLIENT, CANCELLED_BY_SALON, NO_SHOW}

ActiveStatuses == {PENDING, CONFIRMED, IN_PROGRESS}

\* datetime.combine(date, time)
combine(d, t) == d * MinutesPerDay + t

\* datetime.time(): the time of day, the date is dropped
time_of(dt) == dt % MinutesPerDay

\* datetime.date()
date_of(dt) == dt \div MinutesPerDay

\* date.weekday(): 0 = Monday .. 6 = Sunday
isoweekday_from_zero(d) == d % 7

\* date.isoweekday(): 1 = Monday .. 7 = Sunday
isoweekday(d) == (d % 7) + 1

\* datetime.strptime(s, "%H:%M").time() of a break bound kept as <<hour, minute>>
strptime_hm(s) == s[1] * 60 + s[2]

\* Python truthiness of an Optional[str]
truthy_str(s) == s \notin {None, ""}

\* Python truthiness of a nullable Decimal: None and Decimal(0) are false
truthy_decimal(x) == x # NULL /\ x # 0

NoLocal == [kind |-> "none"]
NoResp == [op |-> "none", code |-> 0]

-----------------------------------------------------------------------------
(* calculate_available_slots *)

\* the rows of one master on one date, whatever their status
existing_bookings_any_status(master_id, booking_date) ==
    {bookings[i] : i \in {j \in 1..Len(bookings) :
        /\ bookings[j].master_id = master_id
        /\ bookings[j].booking_date = booking_date}}

\* the rows of one master on one date that hold their slot
existing_bookings(master_id, booking_date) ==
    {bookings[i] : i \in {j \in 1..Len(bookings) :
        /\ bookings[j].master_id = master_id
        /\ bookings[j].booking_date = booking_date
        /\ bookings[j].status \in ActiveStatuses}}

\* only a slot that starts inside a break is in it
slot_in_break_start_inside(slot_start_time, slot_end_time, breaks) ==
    \E i \in 1..Len(breaks) :
        /\ slot_start_time >= strptime_hm(breaks[i].break_start)
        /\ slot_start_time < strptime_hm(breaks[i].break_end)

slot_in_break(slot_start_time, slot_end_time, breaks) ==
    \E i \in 1..Len(breaks) :
        ~(\/ slot_end_time <= strptime_hm(breaks[i].break_start)
          \/ slot_start_time >= strptime_hm(breaks[i].break_end))

slot_is_booked_no_buffer(slot_start_datetime, slot_end_datetime, existing) ==
    \E booking \in existing :
        LET booking_start_datetime == combine(booking.booking_date, booking.start_time)
            booking_end_datetime == combine(booking.booking_date, booking.end_time)
        IN ~(\/ slot_end_datetime <= booking_start_datetime
             \/ slot_start_datetime >= booking_end_datetime)

slot_is_booked(slot_start_datetime, slot_end_datetime, existing) ==
    \E booking \in existing :
        LET booking_start_datetime == combine(booking.booking_date, booking.start_time)
            booking_end_datetime == combine(booking.booking_date, booking.end_time) + BufferTime
        IN ~(\/ slot_end_datetime <= booking_start_datetime
             \/ slot_start_datetime >= booking_end_datetime)

\* the walk goes on while the candidate starts before the window ends
RECURSIVE slot_loop_overshoot(_, _, _, _, _, _)
slot_loop_overshoot(current_datetime, end_datetime, duration, booking_date, breaks, existing) ==
    IF current_datetime >= end_datetime
    THEN <<>>
    ELSE LET slot_start_time == time_of(current_datetime)
             slot_end_time == time_of(current_datetime + duration)
             rest == slot_loop_overshoot(current_datetime + SlotInterval, end_datetime,
                                         duration, booking_date, breaks, existing)
         IN IF combine(booking_date, slot_start_time) < now + LeadMinutes
            THEN rest
            ELSE IF slot_in_break(slot_start_time, slot_end_time, breaks)
            THEN rest
            ELSE IF slot_is_booked(combine(booking_date, slot_start_time),
                                   combine(booking_date, slot_end_time), existing)
            THEN rest
            ELSE <<[slot_time |-> slot_start_time, slot_end |-> slot_end_time]>> \o rest

RECURSIVE slot_loop(_, _, _, _, _, _)
slot_loop(current_datetime, end_datetime, duration, booking_date, breaks, existing) ==
    IF current_datetime + duration > end_datetime
    THEN <<>>
    ELSE LET slot_start_time == time_of(current_datetime)
             slot_end_time == time_of(current_datetime + duration)
             slot_datetime == combine(booking_date, slot_start_time)
             rest == slot_loop(current_datetime + SlotInterval, end_datetime,
                               duration, booking_date, breaks, existing)
         IN IF slot_datetime < now + LeadMinutes
            THEN rest
            ELSE IF slot_in_break(slot_start_time, slot_end_time, breaks)
            THEN rest
            ELSE IF slot_is_booked(combine(booking_date, slot_start_time),
                                   combine(booking_date, slot_end_time), existing)
            THEN rest
            ELSE <<[slot_time |-> slot_start_time, slot_end |-> slot_end_time]>> \o rest

\* a custom_hours exception leaves the regular window and its breaks in force
calculate_available_slots_regular_first(master_id, service_id, branch_id, booking_date) ==
    LET svc == {s \in services : s.id = service_id}
        exc == {e \in exceptions : e.master_id = master_id /\ e.exception_date = booking_date}
        sch == {r \in schedules : /\ r.master_id = master_id
                                   /\ r.branch_id = branch_id
                                   /\ r.day_of_week = isoweekday(booking_date)}
    IN IF svc = {} THEN <<>>
       ELSE IF \E e \in exc : e.exception_type \in {"day_off", "fully_booked"} THEN <<>>
       ELSE IF sch = {} THEN <<>>
       ELSE LET service == CHOOSE s \in svc : TRUE
                schedule == CHOOSE r \in sch : TRUE
            IN IF ~schedule.is_working THEN <<>>
               ELSE slot_loop(combine(booking_date, schedule.start_time),
                              combine(booking_date, schedule.end_time),
                              service.duration_minutes, booking_date, schedule.breaks,
                              existing_bookings(master_id, booking_date))

calculate_available_slots(master_id, service_id, branch_id, booking_date) ==
    LET svc == {s \in services : s.id = service_id}
        exc == {e \in exceptions : e.master_id = master_id /\ e.exception_date = booking_date}
        sch == {r \in schedules : /\ r.master_id = master_id
                                   /\ r.branch_id = branch_id
                                   /\ r.day_of_week = isoweekday(booking_date)}
    IN IF svc = {} THEN <<>>
       ELSE LET service == CHOOSE s \in svc : TRUE
                existing == existing_bookings(master_id, booking_date)
            IN IF exc # {}
               THEN LET exception == CHOOSE e \in exc : TRUE
                    IN IF exception.exception_type \in {"day_off", "fully_booked"}
                       THEN <<>>
                       ELSE slot_loop(combine(booking_date, exception.custom_start_time),
                                      combine(booking_date, exception.custom_end_time),
                                      service.duration_minutes, booking_date, <<>>, existing)
               ELSE IF sch = {} THEN <<>>
               ELSE LET schedule == CHOOSE r \in sch : TRUE
                    IN IF ~schedule.is_working THEN <<>>
                       ELSE slot_loop(combine(booking_date, schedule.start_time),
                                      combine(booking_date, schedule.end_time),
                                      service.duration_minutes, booking_date,
                                      schedule.breaks, existing)

\* datetime.combine(booking_date, None) raises TypeError when the window the
\* function settles on has no start or no end
calculate_available_slots_raises(master_id, service_id, branch_id, booking_date) ==
    LET svc == {s \in services : s.id = service_id}
        exc == {e \in exceptions : e.master_id = master_id /\ e.exception_date = booking_date}
        sch == {r \in schedules : /\ r.master_id = master_id
                                   /\ r.branch_id = branch_id
                                   /\ r.day_of_week = isoweekday(booking_date)}
    IN /\ svc # {}
       /\ IF exc # {}
          THEN LET exception == CHOOSE e \in exc : TRUE
               IN /\ exception.exception_type = "custom_hours"
                  /\ NULL \in {exception.custom_start_time, exception.custom_end_time}
          ELSE /\ sch # {}
               /\ LET schedule == CHOOSE r \in sch : TRUE
                  IN /\ schedule.is_working
                     /\ NULL \in {schedule.start_time, schedule.end_time}

-----------------------------------------------------------------------------
(* create_booking *)

\* the price of a booking: the master's custom price if set, else the base price
determine_price(master_id, service) ==
    LET ms == {x \in master_services : /\ x.master_id = master_id
                                        /\ x.service_id = service.id}
    IN IF ms # {} /\ truthy_decimal((CHOOSE x \in ms : TRUE).custom_price)
       THEN (CHOOSE x \in ms : TRUE).custom_price
       ELSE service.base_price

\* end_time one grid step after the start, whatever the service
calculate_end_time_one_slot(booking_date, start_time, duration_minutes) ==
    time_of(combine(booking_date, start_time) + SlotInterval)

\* end_time of a new booking
calculate_end_time(booking_date, start_time, duration_minutes) ==
    time_of(combine(booking_date, start_time) + duration_minutes)

\* Booking(...) as create_booking builds it
new_booking(r, service) ==
    [client_id |-> r.client_id,
     master_id |-> r.master_id,
     service_id |-> r.service_id,
     branch_id |-> r.branch_id,
     booking_date |-> r.booking_date,
     start_time |-> r.start_time,
     end_time |-> calculate_end_time(r.booking_date, r.start_time, service.duration_minutes),
     final_price |-> determine_price(r.master_id, service),
     status |-> PENDING,
     notes_for_master |-> None,
     reminded_at |-> NULL,
     completed_at |-> NULL,
     cancelled_at |-> NULL,
     cancellation_reason |-> None,
     written_by |-> "create_booking"]

\* the worker ends handler op with an HTTP status and an empty session
finish(w, op, code) ==
    /\ pc' = [pc EXCEPT ![w] = "idle"]
    /\ local' = [local EXCEPT ![w] = NoLocal]
    /\ resp' = [resp EXCEPT ![w] = [op |-> op, code |-> code]]

\* a request reaches handler op of an idle worker
begin(w, op, r) ==
    /\ pc[w] = "idle"
    /\ pc' = [pc EXCEPT ![w] = op]
    /\ local' = [local EXCEPT ![w] = r]
    /\ resp' = [resp EXCEPT ![w] = NoResp]

\* the rows the workers still hold for insertion count against the bound
InFlightCreates ==
    Cardinality({w \in DOMAIN pc : pc[w] \in {"create_booking", "create_booking_commit"}})

create_booking_begin(w, r) ==
    /\ Len(bookings) + InFlightCreates < MaxBookings
    /\ begin(w, "create_booking", r)
    /\ UNCHANGED <<now, catalog, bookings>>

\* Master.id == master_id, any is_active
any_master(master_id) == {m \in masters : m.id = master_id}

\* Master.id == master_id, Master.is_active == True
active_master(master_id) == {m \in masters : m.id = master_id /\ m.is_active}

\* Service.id == service_id, Service.is_active == True
active_service(service_id) == {x \in services : x.id = service_id /\ x.is_active}

\* some slot is free, whichever it is
slot_available_any(available_slots, start_time) == Len(available_slots) > 0

\* any(slot.slot_time == booking_data.start_time for slot in available_slots)
slot_available(available_slots, start_time) ==
    \E i \in 1..Len(available_slots) : available_slots[i].slot_time = start_time

\* the handler up to db.add(booking): lookups, slot check, the new row
create_booking(w) ==
    /\ pc[w] = "create_booking"
    /\ LET r == local[w]
           master == active_master(r.master_id)
           service == active_service(r.service_id)
           available_slots == calculate_available_slots(r.master_id, r.service_id,
                                                        r.branch_id, r.booking_date)
       IN IF master = {} THEN finish(w, "create_booking", 404)
          ELSE IF service = {} THEN finish(w, "create_booking", 404)
          ELSE IF calculate_available_slots_raises(r.master_id, r.service_id,
                                                   r.branch_id, r.booking_date)
          THEN finish(w, "create_booking", 500)
          ELSE IF ~slot_available(available_slots, r.start_time) THEN finish(w, "create_booking", 409)
          ELSE /\ pc' = [pc EXCEPT ![w] = "create_booking_commit"]
               /\ local' = [local EXCEPT ![w] =
                     [req |-> r, booking |-> new_booking(r, CHOOSE s \in service : TRUE)]]
               /\ UNCHANGED resp
    /\ UNCHANGED <<now, catalog, bookings>>

\* db.commit(): the row is inserted, whatever was committed meanwhile
create_booking_commit(w) ==
    /\ pc[w] = "create_booking_commit"
    /\ bookings' = Append(bookings, local[w].booking)
    /\ finish(w, "create_booking", 201)
    /\ UNCHANGED <<now, catalog>>

-----------------------------------------------------------------------------
(* get_available_slots: the slot listing *)

get_available_slots_begin(w, r) ==
    /\ begin(w, "get_available_slots", r)
    /\ UNCHANGED <<now, catalog, bookings>>

\* the handler answers with the list calculate_available_slots returns; the
\* answer is kept next to the request it answers
get_available_slots(w) ==
    /\ pc[w] = "get_available_slots"
    /\ LET r == local[w]
           op == "get_available_slots"
           master == {m \in masters : m.id = r.master_id}
       IN IF master = {} THEN finish(w, op, 404)
          ELSE IF calculate_available_slots_raises(r.master_id, r.service_id,
                                                   r.branch_id, r.booking_date)
          THEN finish(w, op, 500)
          ELSE /\ pc' = [pc EXCEPT ![w] = "idle"]
               /\ local' = [local EXCEPT ![w] = NoLocal]
               /\ resp' = [resp EXCEPT ![w] =
                     [op |-> op, code |-> 200, req |-> r,
                      slots |-> calculate_available_slots(r.master_id, r.service_id,
                                                          r.branch_id, r.booking_date)]]
    /\ UNCHANGED <<now, catalog, bookings>>

-----------------------------------------------------------------------------
(* The booking status state machine *)

TerminalStatuses == {COMPLETED, CANCELLED_BY_CLIENT, CANCELLED_BY_SALON, NO_SHOW}

\* the docstring's "Cancel bookings (ANY -> CANCELLED_BY_SALON)"
allowed_transitions_cancel_any(current_status) ==
    CASE current_status = PENDING -> {CONFIRMED, CANCELLED_BY_SALON}
      [] current_status = CONFIRMED -> {IN_PROGRESS, CANCELLED_BY_SALON, NO_SHOW}
      [] current_status = IN_PROGRESS -> {COMPLETED, CANCELLED_BY_SALON}
      [] OTHER -> {CANCELLED_BY_SALON}

allowed_transitions(current_status) ==
    CASE current_status = PENDING -> {CONFIRMED, CANCELLED_BY_SALON}
      [] current_status = CONFIRMED -> {IN_PROGRESS, CANCELLED_BY_SALON, NO_SHOW}
      [] current_status = IN_PROGRESS -> {COMPLETED, CANCELLED_BY_SALON}
      [] OTHER -> {}

\* the UPDATE a session flushes at commit: the attributes the handler set
apply_update(row, u, op) ==
    [row EXCEPT !.status = u.status,
                !.cancelled_at = IF u.cancelled_at # NULL THEN u.cancelled_at ELSE @,
                !.completed_at = IF u.completed_at # NULL THEN u.completed_at ELSE @,
                !.cancellation_reason = IF u.cancellation_reason # None
                                        THEN u.cancellation_reason ELSE @,
                !.notes_for_master = IF u.notes_for_master # None
                                     THEN u.notes_for_master ELSE @,
                !.written_by = op]

\* db.commit() of a session that changed rows ids: each row gets its UPDATE
commit_updates(ids, u, op) ==
    bookings' = [i \in 1..Len(bookings) |->
                    IF i \in ids THEN apply_update(bookings[i], u[i], op) ELSE bookings[i]]

-----------------------------------------------------------------------------
(* create_schedule_exception and delete_schedule_exception *)

\* a row of schedule_exceptions
new_exception(id, master_id, exception_date, exception_type, custom_start_time, custom_end_time) ==
    [id |-> id, master_id |-> master_id, exception_date |-> exception_date,
     exception_type |-> exception_type,
     custom_start_time |-> custom_start_time, custom_end_time |-> custom_end_time]

\* str.upper() of the type a request carries
upper(type) ==
    CASE type \in {"day_off", "DAY_OFF"} -> "DAY_OFF"
      [] type \in {"custom_hours", "CUSTOM_HOURS"} -> "CUSTOM_HOURS"
      [] type \in {"fully_booked", "FULLY_BOOKED"} -> "FULLY_BOOKED"
      [] OTHER -> "VACATION"

\* ExceptionType[name]: the value of the member, None where the lookup raises KeyError
ExceptionType(name) ==
    CASE name = "DAY_OFF" -> "day_off"
      [] name = "CUSTOM_HOURS" -> "custom_hours"
      [] name = "FULLY_BOOKED" -> "fully_booked"
      [] OTHER -> None

\* master.permissions.get("can_manage_own_schedule", False): set for m1 only
can_manage_own_schedule(master) == master.id = "m1"

\* the rows the workers still hold for insertion count against the bound
InFlightExceptions ==
    Cardinality({w \in DOMAIN pc :
                    pc[w] \in {"create_schedule_exception", "create_schedule_exception_commit"}})

create_schedule_exception_begin(w, r) ==
    /\ Cardinality(exceptions) + InFlightExceptions < MaxExceptions
    /\ begin(w, "create_schedule_exception", r)
    /\ UNCHANGED <<now, catalog, bookings>>

\* the handler up to db.add(exception)
create_schedule_exception(w) ==
    /\ pc[w] = "create_schedule_exception"
    /\ LET r == local[w]
           op == "create_schedule_exception"
           master == any_master(r.master_id)
       IN IF master = {} THEN finish(w, op, 404)
          ELSE LET m == CHOOSE x \in master : TRUE
                   salon == CHOOSE x \in salons : x.id = m.salon_id
                   is_owner == salon.owner_id = r.current_user.id
                   is_self == m.user_id = r.current_user.id
                   can_manage == can_manage_own_schedule(m)
                   existing == {e \in exceptions : /\ e.master_id = r.master_id
                                                   /\ e.exception_date = r.exception_date}
               IN IF ~(is_owner \/ (is_self /\ can_manage)) THEN finish(w, op, 403)
                  ELSE IF r.exception_date < date_of(now) THEN finish(w, op, 400)
                  ELSE IF existing # {} THEN finish(w, op, 409)
                  ELSE IF ExceptionType(upper(r.exception_type)) = None
                  THEN finish(w, op, 500)
                  ELSE /\ pc' = [pc EXCEPT ![w] = "create_schedule_exception_commit"]
                       /\ UNCHANGED <<local, resp>>
    /\ UNCHANGED <<now, catalog, bookings>>

\* default=uuid.uuid4: an id no stored row and no request in flight carries
fresh_exception_id ==
    CHOOSE n \in 1..(MaxExceptions + Cardinality(DOMAIN pc) + 1) :
        /\ \A e \in exceptions : e.id # n
        /\ \A w \in DOMAIN pc : pc[w] \in {"delete_schedule_exception",
                                           "delete_schedule_exception_commit"}
                                    => local[w].exception_id # n
        /\ \A k \in 1..(n - 1) :
              \/ \E e \in exceptions : e.id = k
              \/ \E w \in DOMAIN pc : /\ pc[w] \in {"delete_schedule_exception",
                                                    "delete_schedule_exception_commit"}
                                      /\ local[w].exception_id = k

\* db.commit(): the INSERT
create_schedule_exception_commit(w) ==
    /\ pc[w] = "create_schedule_exception_commit"
    /\ LET r == local[w]
       IN exceptions' = exceptions \cup
             {new_exception(fresh_exception_id, r.master_id, r.exception_date,
                            ExceptionType(upper(r.exception_type)),
                            r.custom_start_time, r.custom_end_time)}
    /\ finish(w, "create_schedule_exception", 201)
    /\ UNCHANGED <<now, masters, services, master_services, schedules, salons, bookings>>

delete_schedule_exception_begin(w, r) ==
    /\ begin(w, "delete_schedule_exception", r)
    /\ UNCHANGED <<now, catalog, bookings>>

\* the handler up to db.delete(exception)
delete_schedule_exception(w) ==
    /\ pc[w] = "delete_schedule_exception"
    /\ LET r == local[w]
           op == "delete_schedule_exception"
           exception == {e \in exceptions : /\ e.id = r.exception_id
                                            /\ e.master_id = r.master_id}
       IN IF exception = {} THEN finish(w, op, 404)
          ELSE LET m == CHOOSE x \in any_master(r.master_id) : TRUE
                   salon == CHOOSE x \in salons : x.id = m.salon_id
                   is_owner == salon.owner_id = r.current_user.id
                   is_self == m.user_id = r.current_user.id
               IN IF ~(is_owner \/ is_self) THEN finish(w, op, 403)
                  ELSE /\ pc' = [pc EXCEPT ![w] = "delete_schedule_exception_commit"]
                       /\ UNCHANGED <<local, resp>>
    /\ UNCHANGED <<now, catalog, bookings>>

\* db.commit(): the DELETE of that row, if it is still there
delete_schedule_exception_commit(w) ==
    /\ pc[w] = "delete_schedule_exception_commit"
    /\ exceptions' = {e \in exceptions : e.id # local[w].exception_id}
    /\ finish(w, "delete_schedule_exception", 204)
    /\ UNCHANGED <<now, masters, services, master_services, schedules, salons, bookings>>

-----------------------------------------------------------------------------
(* update_booking_status: salon staff *)

update_booking_status_begin(w, r) ==
    /\ begin(w, "update_booking_status", r)
    /\ UNCHANGED <<now, catalog, bookings>>

staff_authorized(current_user, salon, booking) ==
    LET is_owner == salon.owner_id = current_user.id
        is_admin == current_user.role = "platform_admin"
        is_assigned_master ==
            /\ current_user.role = "master"
            /\ \E m \in masters : m.user_id = current_user.id /\ m.id = booking.master_id
    IN is_owner \/ is_admin \/ is_assigned_master

\* booking.client.phone: client c2 has registered no phone
client_phone(client_id) == IF client_id = "c2" THEN None ELSE "+77010000001"

\* how the attempt to send the cancellation message ends: the sender returns
\* success, returns failure, or an exception leaves the try block's body
NotificationOutcomes == {"sent", "failed", "raised"}

\* the message is attempted for a cancellation whose client has a phone
notification_outcomes(r, booking) ==
    IF r.status = CANCELLED_BY_SALON /\ truthy_str(client_phone(booking.client_id))
    THEN NotificationOutcomes
    ELSE {"none"}

\* no except clause: what the body raises leaves the handler
notification_no_except(outcome) == outcome

\* try: ... await whatsapp_client._send_message(...) except Exception: print(...);
\* the sender's return value is not looked at
send_cancellation_notification(outcome) ==
    IF outcome = "raised" THEN "logged" ELSE outcome

\* the handler sets every attribute but cancelled_at
staff_update_no_cancelled_at(r, read_status) ==
    [status |-> r.status,
     read_status |-> read_status,
     cancelled_at |-> NULL,
     cancellation_reason |-> IF r.status = CANCELLED_BY_SALON /\ truthy_str(r.cancellation_reason)
                             THEN r.cancellation_reason ELSE None,
     completed_at |-> IF r.status = COMPLETED THEN now ELSE NULL,
     notes_for_master |-> IF truthy_str(r.notes_for_master) THEN r.notes_for_master ELSE None]

\* the attributes the handler sets on the loaded row before it commits
staff_update(r, read_status) ==
    [status |-> r.status,
     read_status |-> read_status,
     cancelled_at |-> IF r.status = CANCELLED_BY_SALON THEN now ELSE NULL,
     cancellation_reason |-> IF r.status = CANCELLED_BY_SALON /\ truthy_str(r.cancellation_reason)
                             THEN r.cancellation_reason ELSE None,
     completed_at |-> IF r.status = COMPLETED THEN now ELSE NULL,
     notes_for_master |-> IF truthy_str(r.notes_for_master) THEN r.notes_for_master ELSE None]

update_booking_status(w) ==
    /\ pc[w] = "update_booking_status"
    /\ LET r == local[w]
           op == "update_booking_status"
       IN IF r.booking_id \notin 1..Len(bookings) THEN finish(w, op, 404)
          ELSE LET booking == bookings[r.booking_id]
                   master == {m \in masters : m.id = booking.master_id}
               IN IF master = {} \/ (CHOOSE m \in master : TRUE).salon_id # r.salon_id
                  THEN finish(w, op, 404)
                  ELSE LET salon == CHOOSE x \in salons : x.id = r.salon_id
                       IN IF ~staff_authorized(r.current_user, salon, booking)
                          THEN finish(w, op, 403)
                          ELSE IF r.status \notin allowed_transitions(booking.status)
                          THEN finish(w, op, 400)
                          ELSE \E outcome \in notification_outcomes(r, booking) :
                                  IF send_cancellation_notification(outcome) = "raised"
                                  THEN finish(w, op, 500)
                                  ELSE /\ pc' = [pc EXCEPT ![w] = "update_booking_status_commit"]
                                       /\ local' = [local EXCEPT ![w] =
                                             [ids |-> {r.booking_id},
                                              u |-> [i \in {r.booking_id} |->
                                                        staff_update(r, booking.status)],
                                              req |-> r,
                                              notification |-> outcome]]
                                       /\ UNCHANGED resp
    /\ UNCHANGED <<now, catalog, bookings>>

\* db.commit() and the answer; the answer is kept next to the request it
\* answers and the end of the notification attempt
update_booking_status_commit(w) ==
    /\ pc[w] = "update_booking_status_commit"
    /\ commit_updates(local[w].ids, local[w].u, "update_booking_status")
    /\ pc' = [pc EXCEPT ![w] = "idle"]
    /\ local' = [local EXCEPT ![w] = NoLocal]
    /\ resp' = [resp EXCEPT ![w] =
          [op |-> "update_booking_status", code |-> 200, req |-> local[w].req,
           read_status |-> local[w].u[local[w].req.booking_id].read_status,
           notification |-> local[w].notification]]
    /\ UNCHANGED <<now, catalog>>

-----------------------------------------------------------------------------
(* update_booking: the client's own cancellation *)

update_booking_begin(w, r) ==
    /\ begin(w, "update_booking", r)
    /\ UNCHANGED <<now, catalog, bookings>>

\* the handler sets the status and leaves cancelled_at alone
client_update_no_cancelled_at(read_status) ==
    [status |-> CANCELLED_BY_CLIENT,
     read_status |-> read_status,
     cancelled_at |-> NULL,
     cancellation_reason |-> None,
     completed_at |-> NULL,
     notes_for_master |-> None]

client_update(read_status) ==
    [status |-> CANCELLED_BY_CLIENT,
     read_status |-> read_status,
     cancelled_at |-> now,
     cancellation_reason |-> None,
     completed_at |-> NULL,
     notes_for_master |-> None]

update_booking(w) ==
    /\ pc[w] = "update_booking"
    /\ LET r == local[w]
           op == "update_booking"
       IN IF r.booking_id \notin 1..Len(bookings) THEN finish(w, op, 404)
          ELSE LET booking == bookings[r.booking_id]
               IN IF booking.client_id # r.current_user THEN finish(w, op, 403)
                  ELSE IF r.status = "cancelled_by_client"
                  THEN IF booking.status \notin {PENDING, CONFIRMED}
                       THEN finish(w, op, 400)
                       ELSE /\ pc' = [pc EXCEPT ![w] = "update_booking_commit"]
                            /\ local' = [local EXCEPT ![w] =
                                  [ids |-> {r.booking_id},
                                   u |-> [i \in {r.booking_id} |->
                                             client_update(booking.status)]]]
                            /\ UNCHANGED resp
                  ELSE finish(w, op, 400)
    /\ UNCHANGED <<now, catalog, bookings>>

update_booking_commit(w) ==
    /\ pc[w] = "update_booking_commit"
    /\ commit_updates(local[w].ids, local[w].u, "update_booking")
    /\ finish(w, "update_booking", 200)
    /\ UNCHANGED <<now, catalog>>

-----------------------------------------------------------------------------
(* The sweeps *)

\* a sweep that sets the status and never completed_at
sweep_update_no_completed_at(booking, new_status, completed_at) ==
    [status |-> new_status,
     read_status |-> booking.status,
     cancelled_at |-> NULL,
     cancellation_reason |-> None,
     completed_at |-> NULL,
     notes_for_master |-> None]

\* a sweep that stamps completed_at and leaves the status as it read it
sweep_update_keeps_status(booking, new_status, completed_at) ==
    [status |-> booking.status,
     read_status |-> booking.status,
     cancelled_at |-> NULL,
     cancellation_reason |-> None,
     completed_at |-> completed_at,
     notes_for_master |-> None]

sweep_update(booking, new_status, completed_at) ==
    [status |-> new_status,
     read_status |-> booking.status,
     cancelled_at |-> NULL,
     cancellation_reason |-> None,
     completed_at |-> completed_at,
     notes_for_master |-> None]

\* a sweep has read its rows and set their attributes; it commits only if it set any
sweep_read(w, op, ids, u) ==
    IF ids = {}
    THEN finish(w, op, 0)
    ELSE /\ pc' = [pc EXCEPT ![w] = op \o "_commit"]
         /\ local' = [local EXCEPT ![w] = [ids |-> ids, u |-> u]]
         /\ resp' = [resp EXCEPT ![w] = NoResp]

\* the statuses the auto-completion sweep must leave alone are not all excluded
auto_complete_statuses_with_pending == {PENDING, CONFIRMED, IN_PROGRESS}

\* Booking.status.in_([CONFIRMED, IN_PROGRESS])
auto_complete_statuses == {CONFIRMED, IN_PROGRESS}

auto_complete_bookings(w) ==
    /\ pc[w] = "idle"
    /\ LET today == date_of(now)
           yesterday == today - 1
           bookings_to_complete ==
               {i \in 1..Len(bookings) :
                   /\ bookings[i].status \in auto_complete_statuses
                   /\ bookings[i].booking_date \in {today, yesterday}}
           ids == {i \in bookings_to_complete :
                      combine(bookings[i].booking_date, bookings[i].end_time)
                          + AutoCompleteDelay <= now}
       IN sweep_read(w, "auto_complete_bookings", ids,
                     [i \in ids |-> sweep_update(bookings[i], COMPLETED,
                          combine(bookings[i].booking_date, bookings[i].end_time))])
    /\ UNCHANGED <<now, catalog, bookings>>

auto_complete_bookings_commit(w) ==
    /\ pc[w] = "auto_complete_bookings_commit"
    /\ commit_updates(local[w].ids, local[w].u, "auto_complete_bookings")
    /\ finish(w, "auto_complete_bookings", 0)
    /\ UNCHANGED <<now, catalog>>

mark_no_shows(w) ==
    /\ pc[w] = "idle"
    /\ LET today == date_of(now)
           bookings_to_mark ==
               {i \in 1..Len(bookings) :
                   /\ bookings[i].status = CONFIRMED
                   /\ bookings[i].booking_date = today}
           ids == {i \in bookings_to_mark :
                      combine(bookings[i].booking_date, bookings[i].start_time)
                          + NoShowDelay <= now}
       IN sweep_read(w, "mark_no_shows", ids,
                     [i \in ids |-> sweep_update(bookings[i], NO_SHOW, NULL)])
    /\ UNCHANGED <<now, catalog, bookings>>

mark_no_shows_commit(w) ==
    /\ pc[w] = "mark_no_shows_commit"
    /\ commit_updates(local[w].ids, local[w].u, "mark_no_shows")
    /\ finish(w, "mark_no_shows", 0)
    /\ UNCHANGED <<now, catalog>>

\* except Exception: db.rollback().  The UPDATE of one row fails when the
\* session flushes, the whole batch is rolled back and the task ends
sweep_rollback(w, op) ==
    /\ pc[w] = op \o "_commit"
    /\ \E i \in local[w].ids :
          resp' = [resp EXCEPT ![w] = [op |-> op, code |-> 0, failed |-> i]]
    /\ pc' = [pc EXCEPT ![w] = "idle"]
    /\ local' = [local EXCEPT ![w] = NoLocal]
    /\ UNCHANGED <<now, catalog, bookings>>

auto_complete_bookings_rollback(w) ==
    /\ pc[w] = "auto_complete_bookings_commit"
    /\ sweep_rollback(w, "auto_complete_bookings")

mark_no_shows_rollback(w) ==
    /\ pc[w] = "mark_no_shows_commit"
    /\ sweep_rollback(w, "mark_no_shows")

-----------------------------------------------------------------------------
(* send_booking_reminders *)

ReminderWindowStart == 23 * 60 + 45
ReminderWindowEnd == 24 * 60 + 15

\* the rows of the 24h query: PENDING or CONFIRMED, not reminded yet, dated
\* from the date of now + 23h45m to the date of now + 24h15m
bookings_24h ==
    {i \in 1..Len(bookings) :
        /\ bookings[i].status \in {PENDING, CONFIRMED}
        /\ bookings[i].reminded_at = NULL
        /\ bookings[i].booking_date >= date_of(now + ReminderWindowStart)
        /\ bookings[i].booking_date <= date_of(now + ReminderWindowEnd)}

\* the task has run its queries; the 1h reminders it sends afterwards store nothing
send_booking_reminders(w) ==
    /\ pc[w] = "idle"
    /\ IF bookings_24h = {}
       THEN finish(w, "send_booking_reminders", 0)
       ELSE /\ pc' = [pc EXCEPT ![w] = "send_24h_reminder"]
            /\ local' = [local EXCEPT ![w] = [todo |-> bookings_24h]]
            /\ resp' = [resp EXCEPT ![w] = NoResp]
    /\ UNCHANGED <<now, catalog, bookings>>

\* how sending the reminder of a booking ends: nothing is sent to a client
\* without a phone; else the sender answers success or failure, or raises
reminder_outcomes(booking) ==
    IF truthy_str(client_phone(booking.client_id))
    THEN NotificationOutcomes
    ELSE {"none"}

\* one pass of the loop over bookings_24h: on success reminded_at is set and
\* committed; a failure or an exception is logged and the loop goes on
send_24h_reminder(w) ==
    /\ pc[w] = "send_24h_reminder"
    /\ \E i \in local[w].todo :
          /\ \E outcome \in reminder_outcomes(bookings[i]) :
                bookings' = IF outcome = "sent"
                            THEN [bookings EXCEPT ![i].reminded_at = now,
                                                  ![i].written_by = "send_booking_reminders"]
                            ELSE bookings
          /\ IF local[w].todo = {i}
             THEN finish(w, "send_booking_reminders", 0)
             ELSE /\ local' = [local EXCEPT ![w] = [todo |-> local[w].todo \ {i}]]
                  /\ UNCHANGED <<pc, resp>>
    /\ UNCHANGED <<now, catalog>>

-----------------------------------------------------------------------------
(* The clock *)

Tick(points) ==
    /\ \E t \in points : t > now /\ now' = t
    /\ UNCHANGED <<catalog, bookings, pc, local, resp>>

-----------------------------------------------------------------------------
(* The store the handlers run against *)

Clients == {"c1", "c2"}

SeedMasters == {[id |-> "m1", is_active |-> TRUE, salon_id |-> "sal1", user_id |-> "u1"],
                [id |-> "m2", is_active |-> TRUE, salon_id |-> "sal1", user_id |-> "u2"],
                [id |-> "m3", is_active |-> FALSE, salon_id |-> "sal1", user_id |-> "u3"]}

SeedServices == {[id |-> "s1", is_active |-> TRUE, duration_minutes |-> 15, base_price |-> 100],
                 [id |-> "s2", is_active |-> TRUE, duration_minutes |-> 25, base_price |-> 200],
                 [id |-> "s3", is_active |-> FALSE, duration_minutes |-> 15, base_price |-> 300]}

SeedMasterServices == {[master_id |-> "m1", service_id |-> "s1", custom_price |-> 0],
                       [master_id |-> "m1", service_id |-> "s2", custom_price |-> 150],
                       [master_id |-> "m2", service_id |-> "s1", custom_price |-> NULL]}

\* m1 works Monday 09:00-10:00 with a break 09:45-10:00 and Tuesday 09:00-09:15,
\* m2 works Monday 09:00-09:30
SeedSchedules ==
    {[master_id |-> "m1", branch_id |-> "b1", day_of_week |-> 1, is_working |-> TRUE,
      start_time |-> 540, end_time |-> 600,
      breaks |-> <<[break_start |-> <<9, 45>>, break_end |-> <<10, 0>>]>>],
     [master_id |-> "m1", branch_id |-> "b1", day_of_week |-> 2, is_working |-> TRUE,
      start_time |-> 540, end_time |-> 555, breaks |-> <<>>],
     [master_id |-> "m1", branch_id |-> "b1", day_of_week |-> 3, is_working |-> FALSE,
      start_time |-> 540, end_time |-> 600, breaks |-> <<>>],
     [master_id |-> "m2", branch_id |-> "b1", day_of_week |-> 1, is_working |-> TRUE,
      start_time |-> 540, end_time |-> 570, breaks |-> <<>>]}

SeedSalons == {[id |-> "sal1", owner_id |-> "o1"]}

InitCatalog ==
    /\ masters = SeedMasters
    /\ services = SeedServices
    /\ master_services = SeedMasterServices
    /\ schedules = SeedSchedules
    /\ exceptions = {}
    /\ salons = SeedSalons

InitWorkers ==
    /\ pc = [w \in Workers |-> "idle"]
    /\ local = [w \in Workers |-> NoLocal]
    /\ resp = [w \in Workers |-> NoResp]

\* Monday 07:00, nothing booked yet
StartOfDay == combine(0, 7 * 60)

Init ==
    /\ now = StartOfDay
    /\ InitCatalog
    /\ InitWorkers
    /\ bookings = <<>>

\* create_booking requests: every slot of the grid, an off-grid time, unknown ids
CreateRequests ==
    [client_id : {"c1"}, master_id : {"m1"}, service_id : {"s1", "s2", "s3", "s0"},
     branch_id : {"b1"}, booking_date : {0}, start_time : {540, 550, 555, 570, 585}]
    \cup
    [client_id : {"c2"}, master_id : {"m1"}, service_id : {"s1"},
     branch_id : {"b1"}, booking_date : {0}, start_time : {540}]
    \cup
    [client_id : {"c1"}, master_id : {"m1"}, service_id : {"s1"},
     branch_id : {"b1", "b2"}, booking_date : {1, 2}, start_time : {540}]
    \cup
    [client_id : {"c1"}, master_id : {"m2", "m3", "m0"}, service_id : {"s1", "s0"},
     branch_id : {"b1"}, booking_date : {0}, start_time : {540}]

\* Monday 08:15: the 09:00 slot is inside the lead time
CreateTimes == {495}

\* the client's requests: cancel, or a status a client may not set
ClientRequests ==
    [booking_id : 1..(MaxBookings + 1), current_user : Clients,
     status : {"cancelled_by_client", "confirmed"}]

\* requests handled one at a time
NextCreateSeq ==
    \/ \E r \in CreateRequests : create_booking_begin("w1", r)
    \/ create_booking("w1")
    \/ create_booking_commit("w1")
    \/ \E r \in ClientRequests : update_booking_begin("w1", r)
    \/ update_booking("w1")
    \/ update_booking_commit("w1")
    \/ Tick(CreateTimes)

SpecCreateSeq == Init /\ [][NextCreateSeq]_vars

\* concurrent requests for the slots of one master on one morning
RaceRequests ==
    [client_id : Clients, master_id : {"m1"}, service_id : {"s1", "s2"},
     branch_id : {"b1"}, booking_date : {0}, start_time : {540, 555, 570}]
    \cup
    [client_id : {"c2"}, master_id : {"m2"}, service_id : {"s1"},
     branch_id : {"b1"}, booking_date : {0}, start_time : {540}]

NextCreateRace ==
    \/ \E w \in Workers, r \in RaceRequests : create_booking_begin(w, r)
    \/ \E w \in Workers : create_booking(w)
    \/ \E w \in Workers : create_booking_commit(w)

SpecCreateRace == Init /\ [][NextCreateRace]_vars

-----------------------------------------------------------------------------
(* Status changes on a booking that create_booking has stored *)

SeedRequest ==
    [client_id |-> "c1", master_id |-> "m1", service_id |-> "s1",
     branch_id |-> "b1", booking_date |-> 0, start_time |-> 540]

SeedPending == new_booking(SeedRequest, CHOOSE s \in SeedServices : s.id = "s1")

SeedConfirmed == [SeedPending EXCEPT !.status = CONFIRMED,
                                     !.written_by = "update_booking_status"]

InitStatus ==
    /\ now = StartOfDay
    /\ InitCatalog
    /\ InitWorkers
    /\ bookings \in {<<SeedPending>>, <<SeedConfirmed>>}

StaffUsers == {[id |-> "o1", role |-> "salon_owner"],
               [id |-> "a1", role |-> "platform_admin"],
               [id |-> "u1", role |-> "master"],
               [id |-> "u2", role |-> "master"],
               [id |-> "c1", role |-> "client"]}

StaffRequests ==
    [booking_id : {1}, salon_id : {"sal1"}, current_user : StaffUsers,
     status : BookingStatus,
     cancellation_reason : {None, "", "client unreachable"},
     notes_for_master : {None, "note"}]
    \cup
    [booking_id : {1, 2}, salon_id : {"sal1", "sal2"},
     current_user : {[id |-> "o1", role |-> "salon_owner"]},
     status : {CONFIRMED}, cancellation_reason : {None}, notes_for_master : {None}]

\* Monday 09:30 (30 minutes after the 09:00 start) and 11:15 (2 hours after 09:15)
StatusTimes == {570, 675}

NextStatusSeq ==
    \/ \E r \in StaffRequests : update_booking_status_begin("w1", r)
    \/ update_booking_status("w1")
    \/ update_booking_status_commit("w1")
    \/ \E r \in ClientRequests : update_booking_begin("w1", r)
    \/ update_booking("w1")
    \/ update_booking_commit("w1")
    \/ auto_complete_bookings("w1")
    \/ auto_complete_bookings_commit("w1")
    \/ mark_no_shows("w1")
    \/ mark_no_shows_commit("w1")
    \/ Tick(StatusTimes)

SpecStatusSeq == InitStatus /\ [][NextStatusSeq]_vars

\* concurrent status changes by the owner, the client and the sweeps
RaceStaffRequests ==
    [booking_id : {1}, salon_id : {"sal1"},
     current_user : {[id |-> "o1", role |-> "salon_owner"]},
     status : BookingStatus \ {PENDING, CANCELLED_BY_CLIENT},
     cancellation_reason : {None}, notes_for_master : {None}]

RaceClientRequests ==
    [booking_id : {1}, current_user : {"c1"}, status : {"cancelled_by_client"}]

NextStatusRace ==
    \/ \E w \in Workers, r \in RaceStaffRequests : update_booking_status_begin(w, r)
    \/ \E w \in Workers : update_booking_status(w)
    \/ \E w \in Workers : update_booking_status_commit(w)
    \/ \E w \in Workers, r \in RaceClientRequests : update_booking_begin(w, r)
    \/ \E w \in Workers : update_booking(w)
    \/ \E w \in Workers : update_booking_commit(w)
    \/ \E w \in Workers : auto_complete_bookings(w)
    \/ \E w \in Workers : auto_complete_bookings_commit(w)
    \/ \E w \in Workers : mark_no_shows(w)
    \/ \E w \in Workers : mark_no_shows_commit(w)
    \/ Tick(StatusTimes)

SpecStatusRace == InitStatus /\ [][NextStatusRace]_vars

-----------------------------------------------------------------------------
(* The slot listing over the windows, exceptions and bookings of one master *)

SlotServices ==
    SeedServices \cup
    {[id |-> "s4", is_active |-> TRUE, duration_minutes |-> 30, base_price |-> 400]}

\* m1 works Monday 09:00-18:00 without a break
LongDaySchedules ==
    {[master_id |-> "m1", branch_id |-> "b1", day_of_week |-> 1, is_working |-> TRUE,
      start_time |-> 540, end_time |-> 1080, breaks |-> <<>>]}

\* m1 works Monday 09:10-11:00 with a break 10:00-10:30; the Tuesday row is
\* marked working and has no times
OffHourSchedules ==
    {[master_id |-> "m1", branch_id |-> "b1", day_of_week |-> 1, is_working |-> TRUE,
      start_time |-> 550, end_time |-> 660,
      breaks |-> <<[break_start |-> <<10, 0>>, break_end |-> <<10, 30>>]>>],
     [master_id |-> "m1", branch_id |-> "b1", day_of_week |-> 2, is_working |-> TRUE,
      start_time |-> NULL, end_time |-> NULL, breaks |-> <<>>]}

SlotScheduleTables == {SeedSchedules, LongDaySchedules, OffHourSchedules}

\* ScheduleException(...) as create_schedule_exception builds it

\* at most one exception per master and date: Monday off, Tuesday fully booked,
\* Wednesday 09:30-10:30; or Monday 09:30-10:30; or Monday custom hours without times
SlotExceptionTables ==
    {{},
     {new_exception(1, "m1", 0, "day_off", NULL, NULL),
      new_exception(2, "m1", 1, "fully_booked", NULL, NULL),
      new_exception(3, "m1", 2, "custom_hours", 570, 630)},
     {new_exception(1, "m1", 0, "custom_hours", 570, 630)},
     {new_exception(1, "m1", 0, "custom_hours", NULL, NULL)}}

\* a stored booking of the 30-minute service in a given status
stored_booking(master_id, booking_date, start_time, booking_status) ==
    [SeedPending EXCEPT
        !.master_id = master_id,
        !.service_id = "s4",
        !.booking_date = booking_date,
        !.start_time = start_time,
        !.end_time = start_time + 30,
        !.final_price = 400,
        !.status = booking_status,
        !.completed_at = IF booking_status = COMPLETED
                         THEN combine(booking_date, start_time + 30) ELSE NULL,
        !.cancelled_at = IF booking_status \in {CANCELLED_BY_CLIENT, CANCELLED_BY_SALON}
                         THEN StartOfDay ELSE NULL,
        !.written_by = CASE booking_status = PENDING -> "create_booking"
                         [] booking_status = CANCELLED_BY_CLIENT -> "update_booking"
                         [] OTHER -> "update_booking_status"]

\* nothing booked; m1 booked Monday 10:00-10:30 in each status; only another
\* master and another date booked at that time
SlotBookingTables ==
    {<<>>}
    \cup {<<stored_booking("m1", 0, 600, st)>> : st \in BookingStatus}
    \cup {<<stored_booking("m2", 0, 600, CONFIRMED), stored_booking("m1", 1, 600, CONFIRMED)>>}

InitSlots ==
    /\ now = StartOfDay
    /\ masters = SeedMasters
    /\ services = SlotServices
    /\ master_services = SeedMasterServices
    /\ schedules \in SlotScheduleTables
    /\ exceptions \in SlotExceptionTables
    /\ salons = SeedSalons
    /\ InitWorkers
    /\ bookings \in SlotBookingTables

SlotRequests ==
    [master_id : {"m1"}, service_id : {"s1", "s2", "s3", "s4", "s0"},
     branch_id : {"b1", "b2"}, booking_date : {0, 1, 2}]
    \cup
    [master_id : {"m2", "m0"}, service_id : {"s1"}, branch_id : {"b1"}, booking_date : {0}]

\* Monday 08:00 and 08:50
SlotTimes == {8 * 60, 8 * 60 + 50}

NextSlots ==
    \/ \E r \in SlotRequests : get_available_slots_begin("w1", r)
    \/ get_available_slots("w1")
    \/ Tick(SlotTimes)

SpecSlots == InitSlots /\ [][NextSlots]_vars

-----------------------------------------------------------------------------
(* The sweeps over bookings of several dates *)

\* Tuesday 09:00, 24 hours before the Wednesday 09:00 booking
SweepStart == combine(1, 9 * 60)

\* Wednesday 00:00, 01:30 (2 hours after 23:30), 09:30 (30 minutes after 09:00),
\* 11:30 (2 hours after 09:30), Thursday 12:00, Friday 00:00
SweepTimes ==
    {combine(2, 0), combine(2, 90), combine(2, 9 * 60 + 30), combine(2, 11 * 60 + 30),
     combine(3, 12 * 60), combine(4, 0)}

\* Wednesday 09:00-09:30 in each status next to Tuesday 23:00-23:30 CONFIRMED;
\* Wednesday 09:00 PENDING, Tuesday 23:00 IN_PROGRESS, Thursday 18:00 PENDING;
\* two masters CONFIRMED Wednesday 09:00 and m2 CONFIRMED on Monday
SweepBookingTables ==
    {<<stored_booking("m1", 2, 540, st), stored_booking("m1", 1, 1380, CONFIRMED)>> :
        st \in BookingStatus}
    \cup {<<stored_booking("m1", 2, 540, PENDING), stored_booking("m1", 1, 1380, IN_PROGRESS),
            stored_booking("m1", 3, 1080, PENDING)>>}
    \cup {<<stored_booking("m1", 2, 540, CONFIRMED), stored_booking("m2", 2, 540, CONFIRMED),
            stored_booking("m2", 0, 600, CONFIRMED)>>}

InitSweeps ==
    /\ now = SweepStart
    /\ InitCatalog
    /\ InitWorkers
    /\ bookings \in SweepBookingTables

\* a run of a task is short: the clock moves between runs
NextSweeps ==
    \/ auto_complete_bookings("w1")
    \/ auto_complete_bookings_commit("w1")
    \/ auto_complete_bookings_rollback("w1")
    \/ mark_no_shows("w1")
    \/ mark_no_shows_commit("w1")
    \/ mark_no_shows_rollback("w1")
    \/ send_booking_reminders("w1")
    \/ send_24h_reminder("w1")
    \/ (pc["w1"] = "idle" /\ Tick(SweepTimes))

SpecSweeps == InitSweeps /\ [][NextSweeps]_vars

-----------------------------------------------------------------------------
(* The schedule exceptions of the masters, created and deleted by two workers *)

\* Tuesday 07:00
ExceptionStart == combine(1, 7 * 60)

\* the owner closes or re-times Tuesday or Wednesday of m1; m1 sets custom
\* hours; requests that are refused: m2 without the permission, an unknown
\* master, a client, a past date, an unknown type
ExceptionCreateRequests ==
    [master_id : {"m1"}, current_user : {[id |-> "o1", role |-> "salon_owner"]},
     exception_date : {1, 2}, exception_type : {"day_off", "custom_hours"},
     custom_start_time : {NULL}, custom_end_time : {NULL}]
    \cup
    {[master_id |-> "m1", current_user |-> [id |-> "u1", role |-> "master"],
      exception_date |-> 1, exception_type |-> "CUSTOM_HOURS",
      custom_start_time |-> 9 * 60, custom_end_time |-> 9 * 60 + 15]}
    \cup
    {[master_id |-> m, current_user |-> u, exception_date |-> d, exception_type |-> t,
      custom_start_time |-> NULL, custom_end_time |-> NULL] :
        <<m, u, d, t>> \in
           {<<"m2", [id |-> "u2", role |-> "master"], 1, "day_off">>,
            <<"m0", [id |-> "o1", role |-> "salon_owner"], 1, "day_off">>,
            <<"m1", [id |-> "c1", role |-> "client"], 1, "day_off">>,
            <<"m1", [id |-> "o1", role |-> "salon_owner"], 0, "day_off">>,
            <<"m1", [id |-> "o1", role |-> "salon_owner"], 1, "vacation">>}}

\* the second worker serves the owner's requests for Tuesday
RaceExceptionCreateRequests ==
    {r \in ExceptionCreateRequests :
        /\ r.current_user.id = "o1"
        /\ r.master_id = "m1"
        /\ r.exception_date = 1
        /\ r.exception_type \in {"day_off", "custom_hours"}}

ExceptionDeleteRequests ==
    [master_id : {"m1"}, exception_id : {1, 2},
     current_user : {[id |-> "o1", role |-> "salon_owner"]}]
    \cup
    {[master_id |-> "m1", exception_id |-> 1, current_user |-> [id |-> "c1", role |-> "client"]],
     [master_id |-> "m2", exception_id |-> 1,
      current_user |-> [id |-> "o1", role |-> "salon_owner"]]}

RaceExceptionDeleteRequests ==
    {r \in ExceptionDeleteRequests : r.exception_id = 1 /\ r.current_user.id = "o1"}

\* the 15-minute service with m1 on Tuesday
ExceptionSlotRequests ==
    [master_id : {"m1"}, service_id : {"s1"}, branch_id : {"b1"}, booking_date : {1}]

InitExceptions ==
    /\ now = ExceptionStart
    /\ InitCatalog
    /\ InitWorkers
    /\ bookings = <<>>

NextExceptions ==
    \/ \E r \in ExceptionCreateRequests : create_schedule_exception_begin("w1", r)
    \/ \E r \in RaceExceptionCreateRequests : create_schedule_exception_begin("w2", r)
    \/ \E w \in Workers : create_schedule_exception(w)
    \/ \E w \in Workers : create_schedule_exception_commit(w)
    \/ \E r \in ExceptionDeleteRequests : delete_schedule_exception_begin("w1", r)
    \/ \E r \in RaceExceptionDeleteRequests : delete_schedule_exception_begin("w2", r)
    \/ \E w \in Workers : delete_schedule_exception(w)
    \/ \E w \in Workers : delete_schedule_exception_commit(w)
    \/ \E r \in ExceptionSlotRequests : get_available_slots_begin("w1", r)
    \/ get_available_slots("w1")

SpecExceptions == InitExceptions /\ [][NextExceptions]_vars

-----------------------------------------------------------------------------
(* The beat schedule: the sweeps run on worker w1 at every beat of the clock *)

\* crontab(minute='*/30'): the clock of this specification moves from beat to beat
BeatMinutes == 15 + 15

\* Monday 08:00
LiveStart == combine(0, 8 * 60)

\* Wednesday 01:00
LiveHorizon == combine(2, 60)

\* Monday 10:00-10:30, PENDING or CONFIRMED, and Monday 23:00-23:30, CONFIRMED
LiveBookingTables ==
    {<<stored_booking("m1", 0, 600, st), stored_booking("m1", 0, 1380, CONFIRMED)>> :
        st \in {PENDING, CONFIRMED}}

\* the salon owner confirms or starts one of the bookings
LiveStaffRequests ==
    [booking_id : {1, 2}, salon_id : {"sal1"},
     current_user : {[id |-> "o1", role |-> "salon_owner"]},
     status : {CONFIRMED, IN_PROGRESS}, cancellation_reason : {None},
     notes_for_master : {None}]

InitLive ==
    /\ now = LiveStart
    /\ InitCatalog
    /\ InitWorkers
    /\ bookings \in LiveBookingTables

\* 'auto-complete-bookings': crontab(minute=0), the first status task of a beat
beat_auto_complete_bookings ==
    /\ time_of(now) % 60 = 0
    /\ resp["w1"].op = "none"
    /\ auto_complete_bookings("w1")

\* 'mark-no-shows': crontab(minute='*/30'), after auto-complete-bookings on the hour
beat_mark_no_shows ==
    /\ resp["w1"].op = (IF time_of(now) % 60 = 0 THEN "auto_complete_bookings" ELSE "none")
    /\ mark_no_shows("w1")

\* the tasks of this beat have run and no request is in flight: a run and a
\* request are short beside the 30 minutes of a beat; the next beat begins
beat ==
    /\ pc["w1"] = "idle"
    /\ pc["w2"] = "idle"
    /\ resp["w1"].op = "mark_no_shows"
    /\ now + BeatMinutes <= LiveHorizon
    /\ now' = now + BeatMinutes
    /\ resp' = [resp EXCEPT !["w1"] = NoResp]
    /\ UNCHANGED <<catalog, bookings, pc, local>>

NextLive ==
    \/ beat_auto_complete_bookings
    \/ auto_complete_bookings_commit("w1")
    \/ beat_mark_no_shows
    \/ mark_no_shows_commit("w1")
    \/ beat
    \/ \E r \in LiveStaffRequests : update_booking_status_begin("w2", r)
    \/ update_booking_status("w2")
    \/ update_booking_status_commit("w2")

\* every task of a beat runs to its end, a request that was received is
\* answered, and time goes on however many requests arrive (strong fairness
\* of beat); nothing obliges the staff to send a request
SpecLive ==
    /\ InitLive
    /\ [][NextLive]_vars
    /\ WF_vars(beat_auto_complete_bookings)
    /\ WF_vars(auto_complete_bookings_commit("w1"))
    /\ WF_vars(beat_mark_no_shows)
    /\ WF_vars(mark_no_shows_commit("w1"))
    /\ WF_vars(update_booking_status("w2"))
    /\ WF_vars(update_booking_status_commit("w2"))
    /\ SF_vars(beat)

-----------------------------------------------------------------------------
(* Properties *)

\* rows i and j belong to one master on one date and both hold their slot
SameMasterDateActive(i, j) ==
    /\ bookings[i].master_id = bookings[j].master_id
    /\ bookings[i].booking_date = bookings[j].booking_date
    /\ bookings[i].status \in {PENDING, CONFIRMED, IN_PROGRESS}
    /\ bookings[j].status \in {PENDING, CONFIRMED, IN_PROGRESS}

\* worker w takes the step that leaves position p
Leaves(w, p) == pc[w] = p /\ pc'[w] # p

\* C1: under any interleaving of create_booking requests, no two bookings of
\* one master on one date that are both PENDING, CONFIRMED or IN_PROGRESS have
\* overlapping [start_time, end_time) intervals.
C1_NoDoubleBooking ==
    \A i, j \in 1..Len(bookings) :
        (i < j /\ SameMasterDateActive(i, j)) =>
            \/ bookings[i].end_time <= bookings[j].start_time
            \/ bookings[j].end_time <= bookings[i].start_time

\* C2: with requests handled one at a time, a booking B committed while an
\* earlier booking A of the same master and date is PENDING, CONFIRMED or
\* IN_PROGRESS has [B.start_time, B.end_time) disjoint from
\* [A.start_time, A.end_time + 5 minutes).
C2_NewBookingClearOfBufferedExisting ==
    [][\A w \in Workers :
          Leaves(w, "create_booking_commit") =>
              /\ Len(bookings') = Len(bookings) + 1
              /\ LET B == bookings'[Len(bookings')]
                 IN \A i \in 1..Len(bookings) :
                       LET A == bookings[i]
                       IN (/\ A.master_id = B.master_id
                           /\ A.booking_date = B.booking_date
                           /\ A.status \in {PENDING, CONFIRMED, IN_PROGRESS})
                          => (B.end_time <= A.start_time \/ B.start_time >= A.end_time + 5)]_vars

\* C2 witness: a second booking of the master and date starts exactly when the
\* buffer of the first, still active, booking ends.
C2_Witness ==
    /\ Len(bookings) = 2
    /\ SameMasterDateActive(1, 2)
    /\ bookings[2].start_time = bookings[1].end_time + 5
    /\ resp["w1"] = [op |-> "create_booking", code |-> 201]

\* C3 as stated: the buffered intervals [start_time, end_time + 5 minutes) of
\* any two active bookings of one master and date are disjoint.
C3_BufferedIntervalsDisjoint ==
    \A i, j \in 1..Len(bookings) :
        (i < j /\ SameMasterDateActive(i, j)) =>
            \/ bookings[i].end_time + 5 <= bookings[j].start_time
            \/ bookings[j].end_time + 5 <= bookings[i].start_time

\* C3 amended: of any two active bookings of one master and date, the interval
\* [start_time, end_time) of the one created later is disjoint from the
\* buffered interval [start_time, end_time + 5 minutes) of the one created
\* earlier; no buffer is kept before the earlier booking's start.
C3_LaterClearOfBufferedEarlier ==
    \A i, j \in 1..Len(bookings) :
        (i < j /\ SameMasterDateActive(i, j)) =>
            \/ bookings[j].end_time <= bookings[i].start_time
            \/ bookings[j].start_time >= bookings[i].end_time + 5

\* C3 witness: the booking created later ends exactly when the earlier one starts.
C3_Witness ==
    /\ Len(bookings) = 2
    /\ SameMasterDateActive(1, 2)
    /\ bookings[2].end_time = bookings[1].start_time

\* the transition table of the state machine for salon staff, as pairs
StaffTable ==
    {<<PENDING, CONFIRMED>>, <<PENDING, CANCELLED_BY_SALON>>,
     <<CONFIRMED, IN_PROGRESS>>, <<CONFIRMED, CANCELLED_BY_SALON>>, <<CONFIRMED, NO_SHOW>>,
     <<IN_PROGRESS, COMPLETED>>, <<IN_PROGRESS, CANCELLED_BY_SALON>>}

\* the client's two self-cancel edges
ClientEdges == {<<PENDING, CANCELLED_BY_CLIENT>>, <<CONFIRMED, CANCELLED_BY_CLIENT>>}

\* the request of an authorized staff user for a booking of the salon
StaffRequestReachesTable(r) ==
    /\ r.booking_id \in 1..Len(bookings)
    /\ \E m \in masters : m.id = bookings[r.booking_id].master_id /\ m.salon_id = r.salon_id
    /\ \/ \E x \in salons : x.id = r.salon_id /\ x.owner_id = r.current_user.id
       \/ r.current_user.role = "platform_admin"
       \/ /\ r.current_user.role = "master"
          /\ \E m \in masters : /\ m.user_id = r.current_user.id
                                /\ m.id = bookings[r.booking_id].master_id

UserOperations == {"update_booking_status", "update_booking"}
SweepOperations == {"auto_complete_bookings", "mark_no_shows"}

\* C6: a booking that a user action has committed into a terminal status is
\* not afterwards changed to another status by a sweep.
C6_SweepLeavesUserTerminal ==
    [][\A i \in 1..Len(bookings) :
          (/\ bookings[i].status \in {COMPLETED, CANCELLED_BY_CLIENT, CANCELLED_BY_SALON, NO_SHOW}
           /\ bookings[i].written_by \in UserOperations
           /\ bookings'[i] # bookings[i]
           /\ bookings'[i].written_by \in SweepOperations)
          => bookings'[i].status = bookings[i].status]_vars

\* C7: every status written by a user-driven change over a status that a
\* user-driven change (or the creation) stored is a legal transition from the
\* status stored at the moment of the write.
C7_UserWriteLegalFromStored ==
    [][\A i \in 1..Len(bookings) :
          (/\ bookings'[i] # bookings[i]
           /\ bookings[i].written_by \in UserOperations \cup {"create_booking"}
           /\ bookings'[i].written_by \in UserOperations)
          => <<bookings[i].status, bookings'[i].status>> \in StaffTable \cup ClientEdges]_vars

\* the start times of the slots computed for request r
FreshSlotStarts(r) ==
    LET slots == calculate_available_slots(r.master_id, r.service_id, r.branch_id, r.booking_date)
    IN {slots[i].slot_time : i \in 1..Len(slots)}

MasterUsable(r) == \E m \in masters : m.id = r.master_id /\ m.is_active
ServiceUsable(r) == \E x \in services : x.id = r.service_id /\ x.is_active

\* C8: create_booking answers 404 when the master is missing or inactive, 404
\* when the service is missing or inactive, 409 when the requested start_time
\* is not the start of a freshly computed slot; in each case no booking is
\* inserted or modified.
C8_CreateRejections ==
    [][\A w \in Workers :
          Leaves(w, "create_booking") =>
              LET r == local[w]
                  rejected(code) == /\ resp'[w] = [op |-> "create_booking", code |-> code]
                                    /\ pc'[w] = "idle"
                                    /\ bookings' = bookings
              IN /\ ~MasterUsable(r) => rejected(404)
                 /\ ~ServiceUsable(r) => rejected(404)
                 /\ (MasterUsable(r) /\ ServiceUsable(r) /\ r.start_time \notin FreshSlotStarts(r))
                        => rejected(409)]_vars

\* C8 witness: a request for a start time that an existing booking blocks was
\* answered 409 and the table still holds that one booking.
C8_Witness ==
    /\ resp["w1"] = [op |-> "create_booking", code |-> 409]
    /\ Len(bookings) = 1
    /\ bookings[1].status = PENDING

\* C9: a successful create_booking inserts exactly one booking: PENDING, the
\* caller as client, the requested start_time, end_time = start_time + the
\* service's duration_minutes; the rows stored before are unchanged.
C9_CreateInsertsOnePending ==
    [][\A w \in Workers :
          Leaves(w, "create_booking_commit") =>
              LET r == local[w].req
                  n == Len(bookings)
              IN /\ Len(bookings') = n + 1
                 /\ \A i \in 1..n : bookings'[i] = bookings[i]
                 /\ bookings'[n + 1].status = PENDING
                 /\ bookings'[n + 1].client_id = r.client_id
                 /\ bookings'[n + 1].master_id = r.master_id
                 /\ bookings'[n + 1].booking_date = r.booking_date
                 /\ bookings'[n + 1].start_time = r.start_time
                 /\ \E x \in services :
                       /\ x.id = r.service_id
                       /\ bookings'[n + 1].end_time = r.start_time + x.duration_minutes
                 /\ resp'[w] = [op |-> "create_booking", code |-> 201]]_vars

\* C9 witness: two clients' bookings are stored, the second for the 25-minute service.
C9_Witness ==
    /\ Len(bookings) = 2
    /\ bookings[1].client_id # bookings[2].client_id
    /\ bookings[2].service_id = "s2"
    /\ bookings[2].end_time = bookings[2].start_time + 25
    /\ \E w \in Workers : resp[w] = [op |-> "create_booking", code |-> 201]

\* C10: final_price is the master's override price whenever one is configured
\* for (master, service), 0 included, and the base price only when none is.
C10_PriceIsOverrideWheneverConfigured ==
    \A i \in 1..Len(bookings) :
        LET b == bookings[i]
            configured == {x \in master_services : /\ x.master_id = b.master_id
                                                    /\ x.service_id = b.service_id
                                                    /\ x.custom_price # NULL}
        IN /\ \A x \in configured : b.final_price = x.custom_price
           /\ configured = {} =>
                 \E x \in services : x.id = b.service_id /\ b.final_price = x.base_price

-----------------------------------------------------------------------------
(* Properties of the slot listing *)

\* the working window of request r: an exception of the date decides first,
\* then the row of the weekday at the requested branch
EffectiveWindow(r) ==
    LET exc == {e \in exceptions : e.master_id = r.master_id
                                    /\ e.exception_date = r.booking_date}
        sch == {x \in schedules : /\ x.master_id = r.master_id
                                   /\ x.branch_id = r.branch_id
                                   /\ x.day_of_week = (r.booking_date % 7) + 1}
    IN IF \E e \in exc : e.exception_type \in {"day_off", "fully_booked"}
       THEN [open |-> FALSE]
       ELSE IF exc # {}
       THEN LET e == CHOOSE e \in exc : e.exception_type = "custom_hours"
            IN [open |-> TRUE, start_time |-> e.custom_start_time,
                end_time |-> e.custom_end_time, breaks |-> {}]
       ELSE IF \A x \in sch : ~x.is_working
       THEN [open |-> FALSE]
       ELSE LET x == CHOOSE x \in sch : x.is_working
            IN [open |-> TRUE, start_time |-> x.start_time, end_time |-> x.end_time,
                breaks |-> {[from |-> x.breaks[k].break_start[1] * 60
                                        + x.breaks[k].break_start[2],
                             to |-> x.breaks[k].break_end[1] * 60
                                      + x.breaks[k].break_end[2]] : k \in 1..Len(x.breaks)}]

\* worker w answers a slot listing request with a list
Lists(w) ==
    /\ Leaves(w, "get_available_slots")
    /\ resp'[w].code = 200

\* an answered listing of worker w1
Listed == resp["w1"].op = "get_available_slots" /\ resp["w1"].code = 200

\* C11: no slot returned by calculate_available_slots intersects a break
\* interval [break_start, break_end) of the effective working window, and no
\* returned slot starts before now + 1 hour.
C11_SlotsClearOfBreaksAndLeadTime ==
    [][\A w \in Workers :
          Lists(w) =>
              LET r == local[w]
                  slots == resp'[w].slots
              IN \A i \in 1..Len(slots) :
                    /\ r.booking_date * 1440 + slots[i].slot_time >= now + 60
                    /\ EffectiveWindow(r).open
                    /\ \A b \in EffectiveWindow(r).breaks :
                          slots[i].slot_end <= b.from \/ slots[i].slot_time >= b.to]_vars

\* C11 witness: at 08:50, in a window 09:10-11:00 with a break 10:00-10:30, the
\* 15-minute service is offered at 10:40 only.
C11_Witness ==
    /\ Listed
    /\ schedules = OffHourSchedules
    /\ exceptions = {}
    /\ now = 8 * 60 + 50
    /\ resp["w1"].req = [master_id |-> "m1", service_id |-> "s1",
                         branch_id |-> "b1", booking_date |-> 0]
    /\ resp["w1"].slots = <<[slot_time |-> 640, slot_end |-> 655]>>

\* C12: every slot returned by calculate_available_slots has slot_end -
\* slot_start equal to the service's duration_minutes and slot_end no later
\* than the end of the effective working window of that date.
C12_SlotLengthAndWindowEnd ==
    [][\A w \in Workers :
          Lists(w) =>
              LET r == local[w]
                  slots == resp'[w].slots
              IN \A i \in 1..Len(slots) :
                    /\ \E x \in services :
                          /\ x.id = r.service_id
                          /\ slots[i].slot_end - slots[i].slot_time = x.duration_minutes
                    /\ EffectiveWindow(r).open
                    /\ slots[i].slot_end <= EffectiveWindow(r).end_time]_vars

\* C12 witness: in the window 09:00-18:00 the last slot of the 30-minute
\* service is 17:30-18:00.
C12_Witness ==
    /\ Listed
    /\ schedules = LongDaySchedules
    /\ exceptions = {}
    /\ resp["w1"].req.service_id = "s4"
    /\ Len(resp["w1"].slots) > 0
    /\ resp["w1"].slots[Len(resp["w1"].slots)] = [slot_time |-> 1050, slot_end |-> 1080]

\* C13: every returned slot start is the window's start_time + 15 * k minutes
\* for an integer k >= 0, and the list is in strictly ascending order of start
\* time.
C13_GridFromWindowStartAscending ==
    [][\A w \in Workers :
          Lists(w) =>
              LET r == local[w]
                  slots == resp'[w].slots
              IN /\ \A i \in 1..Len(slots) :
                       /\ EffectiveWindow(r).open
                       /\ slots[i].slot_time >= EffectiveWindow(r).start_time
                       /\ (slots[i].slot_time - EffectiveWindow(r).start_time) % 15 = 0
                 /\ \A i \in 1..(Len(slots) - 1) :
                       slots[i].slot_time < slots[i + 1].slot_time]_vars

\* C13 witness: in the window 09:10-11:00 with a break 10:00-10:30 the
\* 15-minute service is offered at 09:10, 09:25, 09:40 and 10:40.
C13_Witness ==
    /\ Listed
    /\ schedules = OffHourSchedules
    /\ exceptions = {}
    /\ Len(resp["w1"].slots) = 4
    /\ resp["w1"].slots[1].slot_time = 550
    /\ resp["w1"].slots[2].slot_time = 565
    /\ resp["w1"].slots[3].slot_time = 580
    /\ resp["w1"].slots[4].slot_time = 640

\* the candidate starts of a window for a service of dur minutes
GridCandidates(start_time, end_time, dur) ==
    {c \in start_time..(end_time - dur) : (c - start_time) % 15 = 0}

\* the start times of a slot list
SlotStarts(slots) == {slots[i].slot_time : i \in 1..Len(slots)}

\* candidate c of request r starts no earlier than one hour from now
PassesLead(r, c) == r.booking_date * 1440 + c >= now + 60

\* [c, c + dur) meets no break of the window
PassesBreaks(win, c, dur) == \A b \in win.breaks : c + dur <= b.from \/ c >= b.to

\* [c, c + dur) meets [start_time, end_time + 5 minutes) of a PENDING, CONFIRMED
\* or IN_PROGRESS booking of the requested master and date
Blocked(r, c, dur) ==
    \E i \in 1..Len(bookings) :
        /\ bookings[i].master_id = r.master_id
        /\ bookings[i].booking_date = r.booking_date
        /\ bookings[i].status \in {PENDING, CONFIRMED, IN_PROGRESS}
        /\ c < bookings[i].end_time + 5
        /\ c + dur > bookings[i].start_time

\* the duration of the requested service
RequestedDuration(r) == (CHOOSE x \in services : x.id = r.service_id).duration_minutes

\* the listing request for master m1, the 30-minute service, on Monday
LongDayRequest ==
    [master_id |-> "m1", service_id |-> "s4", branch_id |-> "b1", booking_date |-> 0]

\* C14: a grid candidate that passes the lead-time and break filters is left
\* out of the slot list exactly when [candidate, candidate + duration) meets
\* [b.start_time, b.end_time + 5 minutes) for a booking b of the same master and
\* date in status PENDING, CONFIRMED or IN_PROGRESS; bookings in the other
\* statuses exclude nothing.  With a CONFIRMED booking 10:00-10:30 and a
\* 30-minute service on a grid from 09:00, exactly the starts 09:45, 10:00,
\* 10:15 and 10:30 are left out.
C14_ExcludedExactlyWhenBufferedBookingMet ==
    [][\A w \in Workers :
          (/\ Lists(w)
           /\ \E x \in services : x.id = local[w].service_id
           /\ EffectiveWindow(local[w]).open)
          => LET r == local[w]
                 win == EffectiveWindow(r)
                 dur == RequestedDuration(r)
                 grid == GridCandidates(win.start_time, win.end_time, dur)
                 starts == SlotStarts(resp'[w].slots)
             IN /\ \A c \in grid :
                      (PassesLead(r, c) /\ PassesBreaks(win, c, dur))
                          => (c \notin starts <=> Blocked(r, c, dur))
                /\ (/\ schedules = LongDaySchedules
                    /\ exceptions = {}
                    /\ bookings = <<stored_booking("m1", 0, 600, CONFIRMED)>>
                    /\ r = LongDayRequest
                    /\ now + 60 <= 540)
                   => grid \ starts = {585, 600, 615, 630}]_vars

\* C14 witness: with the CONFIRMED booking 10:00-10:30 the 30-minute service is
\* listed at 09:30 and at 10:45 and at none of 09:45, 10:00, 10:15, 10:30.
C14_Witness ==
    /\ Listed
    /\ schedules = LongDaySchedules
    /\ exceptions = {}
    /\ bookings = <<stored_booking("m1", 0, 600, CONFIRMED)>>
    /\ resp["w1"].req = LongDayRequest
    /\ {570, 645} \subseteq SlotStarts(resp["w1"].slots)
    /\ {585, 600, 615, 630} \cap SlotStarts(resp["w1"].slots) = {}

\* the conditions of Scenario A hold when worker w answers: working hours
\* 09:00-18:00, no breaks, no exception, nothing booked, the 30-minute service,
\* 08:00 on the same day
ScenarioA(w) ==
    /\ Lists(w)
    /\ schedules = LongDaySchedules
    /\ exceptions = {}
    /\ bookings = <<>>
    /\ local[w] = LongDayRequest
    /\ now = 8 * 60

\* C15 as stated: in Scenario A the first slot returned starts at 10:00.
C15_ScenarioAFirstSlotAtTen ==
    [][\A w \in Workers :
          ScenarioA(w) => /\ Len(resp'[w].slots) > 0
                          /\ resp'[w].slots[1].slot_time = 10 * 60]_vars

\* C15 amended: in Scenario A the first slot returned starts at 09:00, the
\* first grid point that is not before now + 1 hour.
C15_ScenarioAFirstSlotAtNine ==
    [][\A w \in Workers :
          ScenarioA(w) => /\ Len(resp'[w].slots) > 0
                          /\ resp'[w].slots[1].slot_time = 9 * 60]_vars

\* C15 witness: Scenario A has been answered with the 35 slots from 09:00 to 17:30.
C15_Witness ==
    /\ Listed
    /\ schedules = LongDaySchedules
    /\ exceptions = {}
    /\ bookings = <<>>
    /\ now = 8 * 60
    /\ resp["w1"].req = LongDayRequest
    /\ Len(resp["w1"].slots) = 35
    /\ resp["w1"].slots[1] = [slot_time |-> 540, slot_end |-> 570]

\* the exceptions stored for the master and date of request r
ExceptionsOf(r) ==
    {e \in exceptions : e.master_id = r.master_id /\ e.exception_date = r.booking_date}

\* the day of request r is closed: a day_off or fully_booked exception, or no
\* exception and no working row for the weekday at the branch
Closed(r) ==
    \/ \E e \in ExceptionsOf(r) : e.exception_type \in {"day_off", "fully_booked"}
    \/ /\ ExceptionsOf(r) = {}
       /\ \A x \in schedules :
             (/\ x.master_id = r.master_id
              /\ x.branch_id = r.branch_id
              /\ x.day_of_week = (r.booking_date % 7) + 1) => ~x.is_working

\* worker w answers the listing request of a master that exists
AnswersListing(w) ==
    /\ Leaves(w, "get_available_slots")
    /\ \E m \in masters : m.id = local[w].master_id

\* C16: calculate_available_slots returns the empty list whenever the day is
\* closed: a day_off or fully_booked exception exists for (master, date), even
\* if the weekday has a working window, or no exception exists and the row of
\* (master, branch, weekday) is missing or has is_working = false.
C16_ClosedDayHasNoSlots ==
    [][\A w \in Workers :
          (AnswersListing(w) /\ Closed(local[w]))
          => /\ resp'[w].code = 200
             /\ resp'[w].slots = <<>>]_vars

\* C16 witness: Monday is a day off of master m1, whose Mondays are 09:00-18:00
\* working days, and the listing of the 30-minute service is empty.
C16_Witness ==
    /\ Listed
    /\ schedules = LongDaySchedules
    /\ new_exception(1, "m1", 0, "day_off", NULL, NULL) \in exceptions
    /\ resp["w1"].req = LongDayRequest
    /\ resp["w1"].slots = <<>>

\* C17: when a custom_hours exception exists for (master, date), the slots are
\* those of the window from the exception's custom start to its custom end
\* with no breaks: the weekday row, its breaks and the requested branch play no
\* part.
C17_CustomHoursReplaceWindowAndBreaks ==
    [][\A w \in Workers :
          (AnswersListing(w) /\ \E x \in services : x.id = local[w].service_id)
          => \A e \in ExceptionsOf(local[w]) :
              (/\ e.exception_type = "custom_hours"
               /\ e.custom_start_time # NULL
               /\ e.custom_end_time # NULL)
              => LET r == local[w]
                     dur == RequestedDuration(r)
                     expected == {c \in GridCandidates(e.custom_start_time,
                                                       e.custom_end_time, dur) :
                                     PassesLead(r, c) /\ ~Blocked(r, c, dur)}
                 IN /\ resp'[w].code = 200
                    /\ SlotStarts(resp'[w].slots) = expected
                    /\ Len(resp'[w].slots) = Cardinality(expected)]_vars

\* C17 witness: Monday has custom hours 09:30-10:30, the weekday row is
\* 09:00-10:00 at branch b1 with a break 09:45-10:00, and the listing for
\* branch b2 offers 09:30, 09:45, 10:00 and 10:15.
C17_Witness ==
    /\ Listed
    /\ schedules = SeedSchedules
    /\ exceptions = {new_exception(1, "m1", 0, "custom_hours", 570, 630)}
    /\ resp["w1"].req = [master_id |-> "m1", service_id |-> "s1",
                         branch_id |-> "b2", booking_date |-> 0]
    /\ Len(resp["w1"].slots) = 4
    /\ SlotStarts(resp["w1"].slots) = {570, 585, 600, 615}

\* C18: calculate_available_slots, and with it the slot listing, returns the
\* empty list when the service does not exist or has is_active = false.
C18_NoSlotsForMissingOrInactiveService ==
    [][\A w \in Workers :
          (/\ Lists(w)
           /\ ~\E x \in services : x.id = local[w].service_id /\ x.is_active)
          => resp'[w].slots = <<>>]_vars

-----------------------------------------------------------------------------
(* Properties of the cancellation by the salon *)

\* worker w handles an authorized staff request to cancel a booking of the
\* salon that is PENDING, CONFIRMED or IN_PROGRESS
StaffCancelsActive(w) ==
    /\ Leaves(w, "update_booking_status")
    /\ StaffRequestReachesTable(local[w])
    /\ local[w].status = CANCELLED_BY_SALON
    /\ bookings[local[w].booking_id].status \in {PENDING, CONFIRMED, IN_PROGRESS}

\* worker w commits a cancellation by the salon
CommitsStaffCancel(w) ==
    /\ Leaves(w, "update_booking_status_commit")
    /\ local[w].req.status = CANCELLED_BY_SALON

\* C19: a staff transition into CANCELLED_BY_SALON from PENDING, CONFIRMED or
\* IN_PROGRESS goes on to its commit, and the commit leaves status =
\* CANCELLED_BY_SALON, cancelled_at set, and cancellation_reason equal to the
\* supplied reason when one is supplied and as it was when none is.
C19_StaffCancelSetsFields ==
    [][\A w \in Workers :
          /\ StaffCancelsActive(w) =>
                /\ pc'[w] = "update_booking_status_commit"
                /\ local'[w].req = local[w]
                /\ bookings' = bookings
          /\ CommitsStaffCancel(w) =>
                LET r == local[w].req
                    before == bookings[r.booking_id]
                    after == bookings'[r.booking_id]
                IN /\ after.status = CANCELLED_BY_SALON
                   /\ after.cancelled_at # NULL
                   /\ r.cancellation_reason \notin {None, ""}
                         => after.cancellation_reason = r.cancellation_reason
                   /\ r.cancellation_reason \in {None, ""}
                         => after.cancellation_reason = before.cancellation_reason
                   /\ resp'[w].code = 200]_vars

\* C19 witness, Scenario C: the PENDING booking was cancelled by the salon with
\* the reason "client unreachable".
C19_Witness ==
    /\ resp["w1"].op = "update_booking_status"
    /\ resp["w1"].code = 200
    /\ resp["w1"].read_status = PENDING
    /\ resp["w1"].req.cancellation_reason = "client unreachable"
    /\ bookings[1].status = CANCELLED_BY_SALON
    /\ bookings[1].cancelled_at # NULL
    /\ bookings[1].cancellation_reason = "client unreachable"

\* C20: when the notification of the client fails, by a failure answer of the
\* sender or by an exception, a transition into CANCELLED_BY_SALON still
\* commits: the handler does not end at the failure, the booking ends
\* CANCELLED_BY_SALON with cancelled_at set, and the answer is a success.
C20_NotificationFailureKeepsCancellation ==
    [][\A w \in Workers :
          /\ StaffCancelsActive(w) => pc'[w] = "update_booking_status_commit"
          /\ (CommitsStaffCancel(w) /\ local[w].notification \in {"failed", "raised"}) =>
                /\ bookings'[local[w].req.booking_id].status = CANCELLED_BY_SALON
                /\ bookings'[local[w].req.booking_id].cancelled_at # NULL
                /\ resp'[w].code = 200
                /\ pc'[w] = "idle"]_vars

\* C20 witness: the notification raised and the cancellation is stored and
\* answered with success.
C20_Witness ==
    /\ resp["w1"].op = "update_booking_status"
    /\ resp["w1"].code = 200
    /\ resp["w1"].notification = "raised"
    /\ bookings[1].status = CANCELLED_BY_SALON
    /\ bookings[1].cancelled_at # NULL
    /\ bookings[1].written_by = "update_booking_status"

-----------------------------------------------------------------------------
(* Properties of the client's update_booking *)

\* worker w handles the update_booking request of the client who owns the booking
ClientRequestOfOwner(w) ==
    /\ Leaves(w, "update_booking")
    /\ local[w].booking_id \in 1..Len(bookings)
    /\ bookings[local[w].booking_id].client_id = local[w].current_user

\* C21: update_booking changes a booking only when the requested status is
\* cancelled_by_client and the current status is PENDING or CONFIRMED, and then
\* sets status = CANCELLED_BY_CLIENT and cancelled_at; a cancel request on a
\* booking in IN_PROGRESS or a terminal status, and any other requested status,
\* is answered 400 and leaves the booking unchanged.
C21_ClientMayOnlyCancelPendingOrConfirmed ==
    [][\A w \in Workers :
          /\ ClientRequestOfOwner(w) =>
                LET r == local[w]
                    cancellable == /\ r.status = "cancelled_by_client"
                                   /\ bookings[r.booking_id].status \in {PENDING, CONFIRMED}
                IN /\ bookings' = bookings
                   /\ cancellable => /\ pc'[w] = "update_booking_commit"
                                     /\ local'[w].ids = {r.booking_id}
                   /\ ~cancellable => /\ pc'[w] = "idle"
                                      /\ resp'[w] = [op |-> "update_booking", code |-> 400]
          /\ Leaves(w, "update_booking_commit") =>
                \A i \in 1..Len(bookings) :
                    IF i \in local[w].ids
                    THEN /\ bookings[i].status \in {PENDING, CONFIRMED}
                         /\ bookings'[i].status = CANCELLED_BY_CLIENT
                         /\ bookings'[i].cancelled_at # NULL
                         /\ bookings'[i].completed_at = bookings[i].completed_at
                         /\ bookings'[i].start_time = bookings[i].start_time
                    ELSE bookings'[i] = bookings[i]]_vars

\* C21 witness: the client's request on the booking that is IN_PROGRESS was
\* answered 400 and the booking is IN_PROGRESS still.
C21_Witness ==
    /\ resp["w1"] = [op |-> "update_booking", code |-> 400]
    /\ bookings[1].status = IN_PROGRESS
    /\ bookings[1].cancelled_at = NULL

-----------------------------------------------------------------------------
(* Properties of the sweeps *)

\* worker w ends a run of task op that committed or had nothing to commit
Completes(w, op) ==
    /\ pc[w] \in {"idle", op \o "_commit"}
    /\ pc'[w] = "idle"
    /\ now' = now
    /\ resp'[w] = [op |-> op, code |-> 0]

\* worker w starts the commit of a run of task op
Selects(w, op) ==
    /\ pc[w] = "idle"
    /\ pc'[w] = op \o "_commit"

DueForCompletion ==
    {i \in 1..Len(bookings) :
        /\ bookings[i].status \in {CONFIRMED, IN_PROGRESS}
        /\ date_of(now) - bookings[i].booking_date \in {0, 1}
        /\ bookings[i].booking_date * MinutesPerDay + bookings[i].end_time + 2 * 60 <= now}

\* C22: a run of auto_complete_bookings changes exactly the bookings that are
\* CONFIRMED or IN_PROGRESS, dated today or yesterday, and ended two hours ago
\* or earlier: each becomes COMPLETED with completed_at at its end; every
\* other booking and every other field stay as they were
C22_AutoCompleteChangesExactlyDueBookings ==
    [][\A w \in Workers :
          /\ Selects(w, "auto_complete_bookings") =>
                /\ local'[w].ids = DueForCompletion
                /\ bookings' = bookings
          /\ Completes(w, "auto_complete_bookings") =>
                \A i \in 1..Len(bookings) :
                   bookings'[i] =
                      IF i \in DueForCompletion
                      THEN [bookings[i] EXCEPT
                               !.status = COMPLETED,
                               !.completed_at = bookings[i].booking_date * MinutesPerDay
                                                    + bookings[i].end_time,
                               !.written_by = "auto_complete_bookings"]
                      ELSE bookings[i]]_vars

\* Tuesday 23:00-23:30 is completed at Wednesday 01:30 exactly, Wednesday 09:00 is not
C22_Witness ==
    /\ now = combine(2, 90)
    /\ Len(bookings) = 2
    /\ bookings[2].status = COMPLETED
    /\ bookings[2].completed_at = combine(1, 23 * 60 + 30)
    /\ bookings[1].status = CONFIRMED
    /\ resp["w1"] = [op |-> "auto_complete_bookings", code |-> 0]

DueForNoShow ==
    {i \in 1..Len(bookings) :
        /\ bookings[i].status = CONFIRMED
        /\ bookings[i].booking_date = date_of(now)
        /\ bookings[i].booking_date * MinutesPerDay + bookings[i].start_time + 30 <= now}

\* C23: a run of mark_no_shows changes exactly the bookings that are CONFIRMED,
\* dated today, and started 30 minutes ago or earlier: each becomes NO_SHOW;
\* every other booking and every other field stay as they were
C23_NoShowChangesExactlyDueBookings ==
    [][\A w \in Workers :
          /\ Selects(w, "mark_no_shows") =>
                /\ local'[w].ids = DueForNoShow
                /\ bookings' = bookings
          /\ Completes(w, "mark_no_shows") =>
                \A i \in 1..Len(bookings) :
                   bookings'[i] =
                      IF i \in DueForNoShow
                      THEN [bookings[i] EXCEPT !.status = NO_SHOW,
                                               !.written_by = "mark_no_shows"]
                      ELSE bookings[i]]_vars

\* Wednesday 09:00 is marked at 09:30 exactly; Tuesday's CONFIRMED booking is left
C23_Witness ==
    /\ now = combine(2, 9 * 60 + 30)
    /\ Len(bookings) = 2
    /\ bookings[1].status = NO_SHOW
    /\ bookings[1].completed_at = NULL
    /\ bookings[2].status = CONFIRMED
    /\ resp["w1"] = [op |-> "mark_no_shows", code |-> 0]

\* C24: the reminder sweep marks a booking as reminded only if it is PENDING
\* or CONFIRMED, was not reminded before, and starts between now + 23h45m and
\* now + 24h15m; a reminded booking is not reminded again
C24_ReminderOnlyInsideWindow ==
    [][\A i \in 1..Len(bookings) :
          bookings'[i].reminded_at # bookings[i].reminded_at =>
             LET start == bookings[i].booking_date * MinutesPerDay + bookings[i].start_time
             IN /\ bookings[i].status \in {PENDING, CONFIRMED}
                /\ bookings[i].reminded_at = NULL
                /\ now + 23 * 60 + 45 <= start
                /\ start <= now + 24 * 60 + 15]_vars

\* C25: a failure on one booking stays with that booking: when the reminder
\* of one booking fails or raises, the remaining bookings of the run are still
\* processed; when a run of auto_complete_bookings or mark_no_shows fails on
\* one row, every other row it selected still makes its transition
C25_FailureConfinedToOneBooking ==
    [][\A w \in Workers :
          /\ (pc[w] = "send_24h_reminder" /\ pc'[w] = "send_24h_reminder") =>
                \E i \in local[w].todo : local'[w].todo = local[w].todo \ {i}
          /\ (/\ pc[w] \in {"auto_complete_bookings_commit", "mark_no_shows_commit"}
              /\ pc'[w] = "idle"
              /\ "failed" \in DOMAIN resp'[w]) =>
                \A j \in local[w].ids \ {resp'[w].failed} :
                   bookings'[j].status = local[w].u[j].status]_vars

SweepTasks == {"auto_complete_bookings", "mark_no_shows"}

\* C30: the sweeps are idempotent and order-stable on a booking: after a run
\* has committed, a second run of the same sweep at the same time finds
\* nothing to change, and a booking that a sweep moved to NO_SHOW or COMPLETED
\* keeps its status and completed_at in every later run of either sweep
C30_SweepsIdempotentAndOrderStable ==
    [][\A w \in Workers :
          /\ Completes(w, "auto_complete_bookings") => DueForCompletion' = {}
          /\ Completes(w, "mark_no_shows") => DueForNoShow' = {}
          /\ \A i \in 1..Len(bookings) :
                (/\ bookings[i].written_by \in SweepTasks
                 /\ bookings[i].status \in {NO_SHOW, COMPLETED}) =>
                   /\ bookings'[i].status = bookings[i].status
                   /\ bookings'[i].completed_at = bookings[i].completed_at]_vars

\* mark_no_shows marked Wednesday 09:00 at 09:30; auto_complete_bookings ran
\* at 11:30 over it and left it NO_SHOW without completed_at
C30_Witness ==
    /\ now = combine(2, 11 * 60 + 30)
    /\ bookings[1].status = NO_SHOW
    /\ bookings[1].written_by = "mark_no_shows"
    /\ bookings[1].completed_at = NULL
    /\ resp["w1"] = [op |-> "auto_complete_bookings", code |-> 0]

-----------------------------------------------------------------------------
(* Properties of the timestamps *)

\* C28: in every reachable state, under any interleaving of the status
\* handlers and the sweeps, a COMPLETED booking has completed_at set and a
\* cancelled booking has cancelled_at set
C28_TerminalStatusHasItsTimestamp ==
    \A i \in 1..Len(bookings) :
       /\ bookings[i].status = COMPLETED => bookings[i].completed_at # NULL
       /\ bookings[i].status \in {CANCELLED_BY_CLIENT, CANCELLED_BY_SALON} =>
             bookings[i].cancelled_at # NULL

\* a sweep completed a booking while a cancellation of it was in flight
C28_Witness ==
    \E i \in 1..Len(bookings) :
       /\ bookings[i].status = COMPLETED
       /\ bookings[i].written_by = "auto_complete_bookings"
       /\ bookings[i].completed_at # NULL
       /\ bookings[i].cancelled_at # NULL

-----------------------------------------------------------------------------
(* Properties of the beat schedule *)

\* C29: with auto_complete_bookings run every hour and mark_no_shows every 30
\* minutes, every booking that is CONFIRMED or IN_PROGRESS eventually reaches
\* a terminal status without any further request, and a PENDING booking is
\* never moved by a sweep
C29_ConfirmedBookingsReachTerminalStatus ==
    /\ \A i \in 1..2 :
          (bookings[i].status \in {CONFIRMED, IN_PROGRESS})
             ~> (bookings[i].status \in TerminalStatuses)
    /\ [][\A i \in 1..Len(bookings) :
             (bookings[i].status = PENDING /\ bookings'[i].status # PENDING) =>
                bookings'[i].written_by = "update_booking_status"]_vars

-----------------------------------------------------------------------------
(* Properties of the schedule exceptions *)

\* C26: in every reachable state, under any interleaving of
\* create_schedule_exception and delete_schedule_exception, a master has at
\* most one schedule exception per date
C26_OneExceptionPerMasterAndDate ==
    \A e1, e2 \in exceptions :
       (e1.master_id = e2.master_id /\ e1.exception_date = e2.exception_date) => e1 = e2

\* C27: calculate_available_slots never fails on the rows the handlers store:
\* a listing request for a known master is answered with a list, never with
\* an internal error
C27_SlotCalculationNeverFails ==
    [][\A w \in Workers :
          (pc[w] = "get_available_slots" /\ pc'[w] = "idle") => resp'[w].code # 500]_vars

====
